---- MODULE Spec2Model ----
(***************************************************************************)
(* Model of the voice pipeline of open-voice-pipeline:                     *)
(*   - VoicePipeline (src/voice_pipeline/pipeline.py): the orchestrator    *)
(*     that chains STT -> LLM -> sentence-wise TTS as an async generator;  *)
(*   - VoiceWebSocketServer (src/voice_pipeline/transport/websocket.py):   *)
(*     the per-connection reader loop (handle_session) and the background  *)
(*     turn task (_process_audio) that drains the generator to the socket. *)
(*                                                                         *)
(* The asyncio event loop is single-threaded: a coroutine runs without     *)
(* interleaving from one suspension point to the next.  Suspension points  *)
(* are the inbound read, asyncio.sleep, every provider-stream receive and  *)
(* every outbound send.  One action of the model is one such run.          *)
(***************************************************************************)
EXTENDS Integers, Sequences, FiniteSets, TLC

(* ------------------------------ bounds -------------------------------- *)

\* turn tasks that can be created in one session
MaxTurns == 2
\* bytes the recording buffer can hold
MaxBuf == 1
\* items the provider streams (STT, LLM, TTS) yield in one turn
MaxItems == 4

Turns == 1..MaxTurns

(* ------------------------------- text --------------------------------- *)

\* [.!?] of SENTENCE_PATTERN
Terminators == {".", "!", "?"}

\* \s of SENTENCE_PATTERN and of str.strip()
Whitespace == {" ", "\n", "\t"}

Drop(s, n) == SubSeq(s, n + 1, Len(s))

Take(s, n) == SubSeq(s, 1, n)

\* number of leading whitespace characters of s
RECURSIVE LeadingWs(_)
LeadingWs(s) ==
    IF s = <<>> \/ Head(s) \notin Whitespace THEN 0 ELSE 1 + LeadingWs(Tail(s))

\* number of trailing whitespace characters of s
RECURSIVE TrailingWs(_)
TrailingWs(s) ==
    IF s = <<>> \/ s[Len(s)] \notin Whitespace THEN 0
    ELSE 1 + TrailingWs(Take(s, Len(s) - 1))

\* str.strip()
Strip(s) ==
    LET t == Drop(s, LeadingWs(s))
    IN  Take(t, Len(t) - TrailingWs(t))

\* SENTENCE_PATTERN.search(s).end(), 0 when there is no match.  The pattern
\* ([.!?]+\s+|\.{3}\s+) matches leftmost at the first run of terminators
\* that is directly followed by whitespace and greedily takes the whole
\* whitespace run; the second alternative never matches where the first
\* does not.
SentenceEnd(s) ==
    LET hits == {i \in 1..(Len(s) - 1) :
                    s[i] \in Terminators /\ s[i + 1] \in Whitespace}
    IN  IF hits = {} THEN 0
        ELSE LET p == CHOOSE i \in hits : \A j \in hits : i <= j
             IN  p + LeadingWs(Drop(s, p))

(* ------------------------------ events -------------------------------- *)

\* dto.py: the typed events the orchestrator yields
TranscriptChunk(text, final) ==
    [type |-> "transcript", text |-> text, audio |-> 0, final |-> final]

AgentTextChunk(text, final) ==
    [type |-> "agent_text", text |-> text, audio |-> 0, final |-> final]

\* audio is the payload's length in bytes
AgentAudioChunk(audio, final) ==
    [type |-> "agent_audio", text |-> <<>>, audio |-> audio, final |-> final]

(* ----------------------- provider environments ------------------------ *)

\* what SpeechToTextProvider.stream can yield
STTItems ==
    { [text |-> <<"h", "i">>, final |-> TRUE],
      [text |-> <<"h", "i">>, final |-> FALSE],
      [text |-> <<" ">>, final |-> TRUE] }

\* a final transcript without text
EmptySTTItems == { [text |-> <<>>, final |-> TRUE] }

\* what LLMProvider.stream_response can yield: a partial sentence, the rest
\* of a sentence up to its terminator, one sentence with the whitespace after
\* it, three sentences with the final flag, an empty final chunk
LLMItems ==
    { [text |-> <<"a">>, final |-> FALSE],
      [text |-> <<" ", "b", ".">>, final |-> FALSE],
      [text |-> <<"a", ".", " ">>, final |-> FALSE],
      [text |-> <<"a", ".", " ", "b", ".", " ", "c", ".", " ">>, final |-> TRUE],
      [text |-> <<>>, final |-> TRUE] }

\* what TextToSpeechProvider.stream_speech can yield: a complete WAV, a chunk
\* without audio
TTSItems ==
    { [audio |-> 1, final |-> TRUE],
      [audio |-> 0, final |-> FALSE] }

(* ------------------------------- state -------------------------------- *)

VARIABLES
    rpc,              \* handle_session: where the reader coroutine is suspended
    mode,             \* handle_session local: mode
    audio_buffer,     \* handle_session local: audio_buffer
    is_recording,     \* handle_session local: is_recording
    processing_task,  \* handle_session local: processing_task (0 is None)
    client_state,     \* websocket.client_state.name
    interrupted,      \* VoicePipeline._interrupted
    current_tts_task, \* VoicePipeline._current_tts_task
    task,             \* the turn tasks: _process_audio and the generator it drains
    announced,        \* the mode of the last mode_change sent to the client
    text,             \* split_text_into_chunks: the argument text
    max_length,       \* split_text_into_chunks: the argument max_length
    remaining,        \* split_text_into_chunks local: remaining
    chunks,           \* split_text_into_chunks local: chunks, then the result
    split_pc          \* split_text_into_chunks: where the call is

\* the variables of a call of split_text_into_chunks
SplitVars == << text, max_length, remaining, chunks, split_pc >>

vars == << rpc, mode, audio_buffer, is_recording, processing_task, client_state,
           interrupted, current_tts_task, task, announced, SplitVars >>

NoEvent == [type |-> "none", text |-> <<>>, audio |-> 0, final |-> FALSE]

\* a turn task that create_task has not created yet
NoTask ==
    [ pc |-> "none", gen |-> "stt", must_cancel |-> FALSE,
      speaking_mode_sent |-> FALSE, audio_data |-> <<>>,
      transcript_text |-> <<>>, text_buffer |-> <<>>, llm_final |-> FALSE,
      event |-> NoEvent, produced |-> <<>>, synth |-> <<>>, sent |-> <<>>,
      failed |-> {}, voiced |-> {}, stt_input |-> <<>>, chunk |-> 0,
      heard |-> <<>>, nitems |-> 0 ]

\* faulty variant of NewTask: the task is created without the audio
NewTaskNoAudio(audio) == [NoTask EXCEPT !.pc = "created"]

\* asyncio.create_task(self._process_audio(websocket, pipeline, audio, sid))
NewTask(audio) == [NoTask EXCEPT !.pc = "created", !.audio_data = audio]

\* faulty variant of Done: a task whose cancellation was only requested
\* counts as finished
DoneWhenCancelRequested(r) == r.pc \in {"done", "released"} \/ r.must_cancel

\* asyncio.Task.done()
Done(r) == r.pc \in {"done", "released"}

\* a task object exists and has not finished
Live(r) == r.pc \notin {"none", "done", "released"}

\* _is_connected
IsConnected == client_state = "CONNECTED"

(* --------------------------- wire messages ---------------------------- *)

\* by: 0 for the reader, t for turn task t
ModeMsg(m, by) ==
    [type |-> "mode_change", by |-> by, mode |-> m, text |-> <<>>,
     audio |-> 0, final |-> FALSE]

ErrorMsg(by) ==
    [type |-> "error", by |-> by, mode |-> "", text |-> <<>>,
     audio |-> 0, final |-> FALSE]

\* len(base64.b64encode(n bytes))
B64Len(n) == 4 * ((n + 2) \div 3)

\* line 221
MAX_BASE64_SIZE == 1024 * 1024

\* line 225
CHUNK_SIZE == 32 * 1024

\* what TextToSpeechProvider.stream_speech yields for a long text: audio
\* whose base64 encoding is at the size threshold of _send_event, just above
\* it, and one chunk above it; and the empty final chunk that closes a stream
LargeTTSItems ==
    { [audio |-> n, final |-> f] :
        n \in { 3 * (MAX_BASE64_SIZE \div 4),
                (3 * (MAX_BASE64_SIZE \div 4)) + 1,
                3 * ((MAX_BASE64_SIZE + CHUNK_SIZE) \div 4) },
        f \in BOOLEAN }
    \cup { [audio |-> 0, final |-> TRUE] }

\* lines 228-243: the messages of the loop from offset i on, for an audio_b64
\* of len characters.  audio is the length of audio_b64[i:i + CHUNK_SIZE] and
\* start is where that slice begins.
RECURSIVE ChunkMsgs(_, _, _, _)
ChunkMsgs(ev, by, len, i) ==
    IF i >= len THEN <<>>
    ELSE << [type |-> "agent_audio", by |-> by, mode |-> "", text |-> <<>>,
             audio |-> IF i + CHUNK_SIZE <= len THEN CHUNK_SIZE ELSE len - i,
             final |-> (i + CHUNK_SIZE >= len) /\ ev.final,
             start |-> i,
             chunk_index |-> i \div CHUNK_SIZE,
             total_chunks |-> (len + CHUNK_SIZE - 1) \div CHUNK_SIZE] >>
         \o ChunkMsgs(ev, by, len, i + CHUNK_SIZE)

\* faulty variant of EventMsgs: audio is never split
EventMsgsUnsplit(ev, by) ==
    IF ev.type = "agent_audio" /\ (ev.audio > 0 \/ ev.final)
    THEN << [type |-> "agent_audio", by |-> by, mode |-> "", text |-> <<>>,
             audio |-> B64Len(ev.audio), final |-> ev.final] >>
    ELSE IF ev.type = "agent_audio" THEN <<>>
    ELSE << [type |-> ev.type, by |-> by, mode |-> "", text |-> ev.text,
             audio |-> 0, final |-> ev.final] >>

\* _send_event: the messages one event becomes, each sent by its own
\* send_json (an AgentAudioChunk with no audio that is not final sends
\* nothing)
EventMsgs(ev, by) ==
    CASE ev.type \in {"transcript", "agent_text"} ->
           << [type |-> ev.type, by |-> by, mode |-> "", text |-> ev.text,
               audio |-> 0, final |-> ev.final] >>
      [] ev.type = "agent_audio" /\ ev.audio > 0
           /\ B64Len(ev.audio) > MAX_BASE64_SIZE ->
           ChunkMsgs(ev, by, B64Len(ev.audio), 0)
      [] ev.type = "agent_audio" /\ ev.audio > 0
           /\ B64Len(ev.audio) <= MAX_BASE64_SIZE ->
           << [type |-> "agent_audio", by |-> by, mode |-> "", text |-> <<>>,
               audio |-> B64Len(ev.audio), final |-> ev.final] >>
      [] ev.type = "agent_audio" /\ ev.audio = 0 /\ ev.final ->
           << [type |-> "agent_audio", by |-> by, mode |-> "", text |-> <<>>,
               audio |-> 0, final |-> TRUE] >>
      [] OTHER -> <<>>

(* ------------------- the turn task, between suspensions --------------- *)
(* Each operator returns [task |-> the task afterwards, out |-> the         *)
(* messages sent], for task t in state r, with intr = pipeline._interrupted *)
(* and conn = _is_connected(websocket).                                     *)

Result(r, out) == [task |-> r, out |-> out]

\* faulty variant of Finish: the run ends without announcing listening
FinishSilent(t, r, conn) == Result([r EXCEPT !.pc = "done", !.gen = "end"], <<>>)

\* _process_audio lines 180-182: the event loop is over
Finish(t, r, conn) ==
    IF conn
    THEN Result([r EXCEPT !.pc = "sent_listening", !.gen = "end"],
                << ModeMsg("listening", t) >>)
    ELSE Result([r EXCEPT !.pc = "done", !.gen = "end"], <<>>)

\* _process_audio lines 188-192: an exception left the generator
Raise(t, r, conn) ==
    IF conn
    THEN Result([r EXCEPT !.pc = "sent_error", !.gen = "end"], << ErrorMsg(t) >>)
    ELSE Result([r EXCEPT !.pc = "done", !.gen = "end"], <<>>)

\* faulty variant of Flush: the text left in the buffer is not synthesized
FlushNothing(t, r, intr, conn) == Finish(t, r, conn)

\* process_audio_chunk lines 139-150: the flush after the LLM loop
Flush(t, r, intr, conn) ==
    IF Strip(r.text_buffer) # <<>> /\ ~intr
    THEN Result([r EXCEPT !.pc = "ttsf", !.gen = "ttsf",
                          !.synth = Append(@, Strip(r.text_buffer))], <<>>)
    ELSE Finish(t, r, conn)

\* faulty variant of Sentences: the synthesis of a sentence is started and
\* the LLM stream is read on without waiting for it
SentencesEager(t, r, intr, conn) ==
    LET e == SentenceEnd(r.text_buffer)
    IN  IF e > 0
        THEN Result([r EXCEPT !.pc = "llm", !.gen = "tts",
                              !.text_buffer = Drop(@, e),
                              !.synth = Append(@, Strip(Take(r.text_buffer, e)))],
                    <<>>)
        ELSE IF r.llm_final
             THEN Flush(t, r, intr, conn)
             ELSE Result([r EXCEPT !.pc = "llm", !.gen = "llm"], <<>>)

\* faulty variant of Sentences: the final flag of the chunk is not looked at
SentencesIgnoringFinal(t, r, intr, conn) ==
    LET e == SentenceEnd(r.text_buffer)
    IN  IF e > 0
        THEN Result([r EXCEPT !.pc = "tts", !.gen = "tts",
                              !.text_buffer = Drop(@, e),
                              !.synth = Append(@, Strip(Take(r.text_buffer, e)))],
                    <<>>)
        ELSE Result([r EXCEPT !.pc = "llm", !.gen = "llm"], <<>>)

\* process_audio_chunk lines 102-137: the while loop from its head
Sentences(t, r, intr, conn) ==
    LET e == SentenceEnd(r.text_buffer)
    IN  IF e > 0
        THEN Result([r EXCEPT !.pc = "tts", !.gen = "tts",
                              !.text_buffer = Drop(@, e),
                              !.synth = Append(@, Strip(Take(r.text_buffer, e)))],
                    <<>>)
        ELSE IF r.llm_final
             THEN Flush(t, r, intr, conn)
             ELSE Result([r EXCEPT !.pc = "llm", !.gen = "llm"], <<>>)

\* faulty variant of TTSFailed: the exception leaves the generator
TTSFailedRaises(t, r, intr, conn) == Raise(t, r, conn)

\* process_audio_chunk lines 126-128 and 149-150: stream_speech raised; the
\* error is logged and the generator goes on after the try statement
TTSFailed(t, r, intr, conn) ==
    LET r1 == [r EXCEPT !.failed = @ \cup {Len(r.synth)}]
    IN  IF r.pc = "tts" THEN Sentences(t, r1, intr, conn) ELSE Finish(t, r1, conn)

\* faulty variant of NoTranscript: the transcript is not stripped
NoTranscriptUnstripped(s) == s = <<>>

\* line 73: not transcript_text.strip()
NoTranscript(s) == Strip(s) = <<>>

\* the generator resumed after its last yield (r.event), up to its next
\* provider receive or its end
ResumeGen(t, r, intr, conn) ==
    CASE r.event.type = "transcript" ->
           \* lines 71-86
           IF NoTranscript(r.transcript_text) \/ intr
           THEN Finish(t, r, conn)
           ELSE Result([r EXCEPT !.pc = "llm", !.gen = "llm"], <<>>)
      [] r.event.type = "agent_text" ->
           \* lines 97-99, then the while loop
           Sentences(t, [r EXCEPT !.text_buffer = @ \o r.event.text], intr, conn)
      [] OTHER ->
           \* lines 117 and 144: the next audio chunk of the same call
           Result([r EXCEPT !.pc = r.gen], <<>>)

\* faulty variant of SendEvent: the next event is pulled and this one is
\* never sent
SendEventSkipped(t, r, intr, conn) == ResumeGen(t, r, intr, conn)

\* _process_audio line 178: _send_event up to its first send_json, or (if
\* nothing is sent) on to the next event.  chunk counts the messages of the
\* event handed to the socket.
SendEvent(t, r, intr, conn) ==
    LET msgs == IF conn THEN EventMsgs(r.event, t) ELSE <<>>
    IN  IF msgs # <<>>
        THEN Result([r EXCEPT !.pc = "sent_event", !.chunk = 1], << msgs[1] >>)
        ELSE ResumeGen(t, r, intr, conn)

\* a send_json of _send_event returned: the next chunk of the loop of lines
\* 228-243 if there is one and the socket is connected, else line 166
SendNext(t, r, intr, conn) ==
    LET msgs == EventMsgs(r.event, t)
    IN  IF r.chunk < Len(msgs) /\ conn
        THEN Result([r EXCEPT !.chunk = @ + 1], << msgs[r.chunk + 1] >>)
        ELSE ResumeGen(t, r, intr, conn)

\* _process_audio lines 166-178 for one event the generator yielded
Deliver(t, r, ev, intr, conn) ==
    LET r1 == [r EXCEPT !.event = ev, !.produced = Append(@, ev)]
    IN  IF ~conn
        THEN Result([r1 EXCEPT !.pc = "done"], <<>>)
        ELSE IF ev.type = "agent_audio" /\ ~r.speaking_mode_sent
             THEN Result([r1 EXCEPT !.pc = "sent_speaking"],
                         << ModeMsg("speaking", t) >>)
             ELSE SendEvent(t, r1, intr, conn)

\* faulty variant of Cancel: the request is lost
CancelLost(r) == r

\* asyncio.Task.cancel(): a finished task ignores it; a live one gets a
\* CancelledError thrown at its suspension point when it next runs
Cancel(r) == IF Live(r) THEN [r EXCEPT !.must_cancel = TRUE] ELSE r

\* faulty variant of Cancelled: the CancelledError is swallowed and the task
\* goes on from where it was
CancelledSwallowed(t, r, conn) == Result([r EXCEPT !.must_cancel = FALSE], <<>>)

\* faulty variant of Cancelled: the task stays suspended where it is
CancelledIgnored(t, r, conn) == Result(r, <<>>)

\* the CancelledError arrives in task t, suspended at r.pc
\*   before the first step: the coroutine never enters its try block;
\*   inside the try block: lines 184-187;
\*   inside an except block (lines 187, 192, 193): it leaves _process_audio
Cancelled(t, r, conn) ==
    LET r1 == [r EXCEPT !.must_cancel = FALSE, !.gen = "end"]
    IN  IF r.pc \in {"created", "cancel_listening", "sent_error", "error_listening"}
           \/ ~conn
        THEN Result([r1 EXCEPT !.pc = "done"], <<>>)
        ELSE Result([r1 EXCEPT !.pc = "cancel_listening"],
                    << ModeMsg("listening", t) >>)

\* faulty variant of AfterSend: speaking_mode_sent is never set
AfterSendForgetful(t, r, intr, conn) ==
    CASE r.pc = "sent_speaking" -> SendEvent(t, r, intr, conn)
      [] r.pc = "sent_event" -> ResumeGen(t, r, intr, conn)
      [] r.pc = "sent_error" ->
           IF conn
           THEN Result([r EXCEPT !.pc = "error_listening"],
                       << ModeMsg("listening", t) >>)
           ELSE Result([r EXCEPT !.pc = "done"], <<>>)
      [] OTHER -> Result([r EXCEPT !.pc = "done"], <<>>)

\* an outbound send of task t returned
AfterSend(t, r, intr, conn) ==
    CASE r.pc = "sent_speaking" ->
           \* lines 175-178
           SendEvent(t, [r EXCEPT !.speaking_mode_sent = TRUE], intr, conn)
      [] r.pc = "sent_event" ->
           SendNext(t, r, intr, conn)
      [] r.pc = "sent_error" ->
           \* line 193
           IF conn
           THEN Result([r EXCEPT !.pc = "error_listening"],
                       << ModeMsg("listening", t) >>)
           ELSE Result([r EXCEPT !.pc = "done"], <<>>)
      [] OTHER ->
           \* lines 182, 187, 193 were the coroutine's last statement
           Result([r EXCEPT !.pc = "done"], <<>>)

\* faulty variant of SendFailed: the exception of the send reaches the
\* except block of _process_audio
SendFailedPropagates(t, r, intr, conn) == Raise(t, r, conn)

\* an outbound send of task t raised (the peer is gone).  In _send_event and
\* _send_mode_change the exception is caught and logged (lines 262-263,
\* 274-275) and the helper returns: the chunks of the event not sent yet are
\* abandoned; the send of the error message (line 192) is followed by line
\* 194: line 193 is skipped
SendFailed(t, r, intr, conn) ==
    CASE r.pc = "sent_error" -> Result([r EXCEPT !.pc = "done"], <<>>)
      [] r.pc = "sent_event" -> ResumeGen(t, r, intr, conn)
      [] OTHER -> AfterSend(t, r, intr, conn)

\* VoicePipeline.interrupt(): the tasks afterwards.  _current_tts_task is
\* only ever assigned in __init__ (None), so nothing is cancelled here.
interrupt(tk) ==
    IF current_tts_task = 0 THEN tk
    ELSE [tk EXCEPT ![current_tts_task] = Cancel(@)]

(* ------------------------- turn task actions -------------------------- *)

\* the mode the client was last told, after the messages out
LastMode(out, before) ==
    LET ms == {i \in 1..Len(out) : out[i].type = "mode_change"}
    IN  IF ms = {} THEN before
        ELSE out[CHOOSE i \in ms : \A j \in ms : j <= i].mode

\* task t ran from one suspension to the next: res.out was handed to
\* websocket.send_json
Apply(t, res) ==
    /\ task' = [task EXCEPT ![t] = [res.task EXCEPT !.sent = @ \o res.out]]
    /\ announced' = LastMode(res.out, announced)

ReaderVars == << rpc, mode, audio_buffer, is_recording, processing_task,
                 client_state >>

\* faulty variant of AudioSeen: the task reads the reader's buffer
AudioSeenShared(r) == audio_buffer

\* the bytes audio_iterator hands to the STT provider (lines 57-58): the
\* bytes object the task was created with
AudioSeen(r) == r.audio_data

\* faulty variant of FlagAtStart: the flag is left as the last turn left it
FlagAtStartKept == interrupted

\* process_audio_chunk line 55: self._interrupted = False
FlagAtStart == FALSE

\* the task's first step: line 163, process_audio_chunk lines 55-62
TaskStart(t) ==
    /\ task[t].pc = "created" /\ ~task[t].must_cancel
    /\ task' = [task EXCEPT ![t].pc = "stt", ![t].speaking_mode_sent = FALSE,
                            ![t].stt_input = AudioSeen(task[t])]
    /\ interrupted' = FlagAtStart
    /\ UNCHANGED << SplitVars, ReaderVars, current_tts_task, announced >>

\* the event loop runs a cancelled task: CancelledError at its await
TaskCancelled(t) ==
    /\ Live(task[t]) /\ task[t].must_cancel
    /\ Apply(t, Cancelled(t, task[t], IsConnected))
    /\ UNCHANGED << SplitVars, ReaderVars, interrupted, current_tts_task >>

Awaiting(t, pcs) == task[t].pc \in pcs /\ ~task[t].must_cancel

\* stt_provider.stream yields one of items (lines 62-71)
\* faulty variant of Usable: a transcript that is not final is taken too
UsableAny(item) == item.text # <<>>

\* line 67: transcript.final and transcript.text
Usable(item) == item.final /\ item.text # <<>>

STTYieldFrom(t, items) ==
    /\ Awaiting(t, {"stt"}) /\ task[t].nitems < MaxItems
    /\ \E item \in items :
         LET r == [task[t] EXCEPT !.nitems = @ + 1]
         IN  Apply(t, IF interrupted THEN Finish(t, r, IsConnected)
                      ELSE IF Usable(item)
                           THEN Deliver(t, [r EXCEPT !.transcript_text = item.text],
                                        TranscriptChunk(item.text, TRUE),
                                        interrupted, IsConnected)
                           ELSE Result(r, <<>>))
    /\ UNCHANGED << SplitVars, ReaderVars, interrupted, current_tts_task >>

\* stt_provider.stream yields a transcript
STTYield(t) == STTYieldFrom(t, STTItems)

\* stt_provider.stream yields a final transcript without text: line 67 passes
\* over it like over one that is not final
STTYieldEmpty(t) == STTYieldFrom(t, EmptySTTItems)

\* stt_provider.stream ends without a final transcript (lines 73-75)
STTEnd(t) ==
    /\ Awaiting(t, {"stt"})
    /\ Apply(t, Finish(t, task[t], IsConnected))
    /\ UNCHANGED << SplitVars, ReaderVars, interrupted, current_tts_task >>

\* faulty variant of TextEvent: the final flag of the chunk is dropped
TextEventNotFinal(item) == AgentTextChunk(item.text, FALSE)

\* line 94: the event yielded for an LLM chunk
TextEvent(item) == AgentTextChunk(item.text, item.final)

\* llm_provider.stream_response yields a chunk (lines 86-94); heard keeps the
\* chunks received while the turn was not interrupted
LLMYield(t) ==
    /\ Awaiting(t, {"llm"}) /\ task[t].nitems < MaxItems
    /\ \E item \in LLMItems :
         LET r == [task[t] EXCEPT !.nitems = @ + 1, !.llm_final = item.final]
         IN  Apply(t, IF interrupted THEN Finish(t, r, IsConnected)
                      ELSE Deliver(t, [r EXCEPT !.heard = Append(@, item)],
                                   TextEvent(item), interrupted, IsConnected))
    /\ UNCHANGED << SplitVars, ReaderVars, interrupted, current_tts_task >>

\* llm_provider.stream_response ends without a final chunk (line 139)
LLMEnd(t) ==
    /\ Awaiting(t, {"llm"})
    /\ Apply(t, Flush(t, task[t], interrupted, IsConnected))
    /\ UNCHANGED << SplitVars, ReaderVars, interrupted, current_tts_task >>

\* the STT or the LLM provider raises (lines 188-192)
ProviderError(t) ==
    /\ Awaiting(t, {"stt", "llm"})
    /\ Apply(t, Raise(t, task[t], IsConnected))
    /\ UNCHANGED << SplitVars, ReaderVars, interrupted, current_tts_task >>

\* faulty variant of TTSYield: the interruption flag is not tested before
\* the audio chunk is yielded
TTSYieldUnchecked(t) ==
    /\ Awaiting(t, {"tts", "ttsf"}) /\ task[t].nitems < MaxItems
    /\ \E item \in TTSItems :
         Apply(t, Deliver(t, [task[t] EXCEPT !.nitems = @ + 1],
                          AgentAudioChunk(item.audio, item.final),
                          interrupted, IsConnected))
    /\ UNCHANGED << SplitVars, ReaderVars, interrupted, current_tts_task >>

\* tts_provider.stream_speech yields one of items (lines 117-124, 144-148)
TTSYieldFrom(t, items) ==
    /\ Awaiting(t, {"tts", "ttsf"}) /\ task[t].nitems < MaxItems
    /\ \E item \in items :
         LET r == [task[t] EXCEPT !.nitems = @ + 1]
         IN  Apply(t, IF interrupted THEN Finish(t, r, IsConnected)
                      ELSE Deliver(t, [r EXCEPT !.voiced = @ \cup {Len(r.synth)}],
                                   AgentAudioChunk(item.audio, item.final),
                                   interrupted, IsConnected))
    /\ UNCHANGED << SplitVars, ReaderVars, interrupted, current_tts_task >>

\* tts_provider.stream_speech yields an audio chunk
TTSYield(t) == TTSYieldFrom(t, TTSItems)

\* tts_provider.stream_speech yields the audio of a long text
TTSYieldLarge(t) == TTSYieldFrom(t, LargeTTSItems)

\* tts_provider.stream_speech ends (line 126 then the while loop; line 150
\* then the end).  A call that raises takes the same step (lines 127-128,
\* 149-150); TTSError tells the two apart.
TTSEnd(t) ==
    /\ Awaiting(t, {"tts", "ttsf"})
    /\ Apply(t, IF task[t].pc = "tts"
                THEN Sentences(t, task[t], interrupted, IsConnected)
                ELSE Finish(t, task[t], IsConnected))
    /\ UNCHANGED << SplitVars, ReaderVars, interrupted, current_tts_task >>

\* tts_provider.stream_speech raises (lines 127-128, 149-150): the step of
\* TTSEnd, and the call is recorded as failed
TTSError(t) ==
    /\ Awaiting(t, {"tts", "ttsf"})
    /\ Apply(t, TTSFailed(t, task[t], interrupted, IsConnected))
    /\ UNCHANGED << SplitVars, ReaderVars, interrupted, current_tts_task >>

\* an outbound send of the task returns
SendReturns(t) ==
    /\ Awaiting(t, {"sent_speaking", "sent_event", "sent_listening",
                    "cancel_listening", "sent_error", "error_listening"})
    /\ Apply(t, AfterSend(t, task[t], interrupted, IsConnected))
    /\ UNCHANGED << SplitVars, ReaderVars, interrupted, current_tts_task >>

\* an outbound send of the task raises
SendFails(t) ==
    /\ Awaiting(t, {"sent_speaking", "sent_event", "sent_listening",
                    "cancel_listening", "sent_error", "error_listening"})
    /\ Apply(t, SendFailed(t, task[t], interrupted, IsConnected))
    /\ UNCHANGED << SplitVars, ReaderVars, interrupted, current_tts_task >>

\* a step of a task nobody cancelled
RunStep(t) ==
    \/ TaskStart(t)
    \/ STTYield(t)
    \/ STTEnd(t)
    \/ LLMYield(t)
    \/ LLMEnd(t)
    \/ ProviderError(t)
    \/ TTSYield(t)
    \/ TTSEnd(t)
    \/ SendReturns(t)
    \/ SendFails(t)

TaskStep(t) ==
    \/ RunStep(t)
    \/ TaskCancelled(t)

(* --------------------------- reader actions --------------------------- *)

\* characters of the base64 alphabet, and the padding character
B64Chars == {"Q"}

B64Pad == "="

\* k bytes
Bytes(k) == [i \in 1..k |-> 1]

\* base64.b64decode(s) with validate=False, for an s whose padding is at its
\* end: characters outside the alphabet are discarded, then the data
\* characters are decoded if their padding is complete, else binascii.Error
\* is raised (ok is FALSE)
B64Decode(s) ==
    LET n == Len(SelectSeq(s, LAMBDA c : c \in B64Chars))
        p == Len(SelectSeq(s, LAMBDA c : c = B64Pad))
    IN  IF n % 4 = 0 THEN [ok |-> TRUE, bytes |-> Bytes(3 * (n \div 4))]
        ELSE IF n % 4 = 2 /\ p >= 2
             THEN [ok |-> TRUE, bytes |-> Bytes(3 * (n \div 4) + 1)]
        ELSE IF n % 4 = 3 /\ p >= 1
             THEN [ok |-> TRUE, bytes |-> Bytes(3 * (n \div 4) + 2)]
        ELSE [ok |-> FALSE, bytes |-> <<>>]

\* the "audio" field of a voice_audio_chunk message: empty, one byte in
\* base64, the same with a character outside the alphabet, data characters
\* without their padding
Payloads ==
    { <<>>,
      <<"Q", "Q", "=", "=">>,
      <<"Q", "!", "Q", "=", "=">>,
      <<"Q", "Q">> }

\* inbound messages that are not a message of the protocol: text that is no
\* JSON (lines 132-133), JSON that is not an object (data.get raises, lines
\* 134-140), an object of unknown type (no branch of lines 62-130 matches)
MalformedKinds == {"invalid_json", "not_object", "unknown_type"}

\* the id the next create_task gets
NextTurn == Cardinality({t \in Turns : task[t].pc # "none"}) + 1

\* websocket.iter_text() delivers a message to handle
Receiving == rpc = "recv"

\* _send_mode_change by the reader.  A send that raises is caught at lines
\* 274-275 and the handler goes on in the same way.
ReaderSend(m) ==
    announced' = IF IsConnected THEN m ELSE announced

\* lines 62-72: voice_audio_stream_start
StreamStart ==
    /\ Receiving
    /\ IF mode = "speaking" /\ processing_task # 0
       THEN /\ interrupted' = TRUE
            /\ task' = [interrupt(task) EXCEPT ![processing_task] = Cancel(@)]
       ELSE UNCHANGED << interrupted, task >>
    /\ audio_buffer' = <<>>
    /\ is_recording' = TRUE
    /\ mode' = "listening"
    /\ ReaderSend("listening")
    /\ UNCHANGED << rpc, processing_task, client_state, current_tts_task,
                    SplitVars >>

\* faulty variant of Recording: chunks are accumulated whether or not a
\* recording is open
RecordingAlways == TRUE

\* line 76: chunks are accumulated only while recording
Recording == is_recording

\* lines 74-80: voice_audio_chunk with "audio": audio_data.  When b64decode
\* raises, lines 134-140 send an error message and the loop goes on.
AudioChunkOf(audio_data) ==
    /\ Receiving
    /\ LET decoded == B64Decode(audio_data)
       IN  /\ Len(audio_buffer) + Len(decoded.bytes) <= MaxBuf
           /\ audio_buffer' = IF Recording /\ audio_data # <<>> /\ decoded.ok
                              THEN audio_buffer \o decoded.bytes
                              ELSE audio_buffer
    /\ UNCHANGED << rpc, mode, is_recording, processing_task, client_state,
                    interrupted, current_tts_task, task, announced, SplitVars >>

AudioChunk == \E audio_data \in Payloads : AudioChunkOf(audio_data)

\* lines 57-61 and 132-140: a message that is not one of the protocol; at
\* most an error message is sent back
Malformed ==
    /\ Receiving
    /\ \E kind \in MalformedKinds : UNCHANGED vars

\* lines 82-100 and 116-118: voice_audio_stream_end, up to its first await
StreamEnd ==
    /\ Receiving
    /\ audio_buffer # <<>> => NextTurn <= MaxTurns
    /\ is_recording' = FALSE
    /\ IF audio_buffer # <<>>
       THEN IF processing_task # 0 /\ ~Done(task[processing_task])
            THEN \* lines 89-94: interrupt, cancel, sleep
                 /\ interrupted' = TRUE
                 /\ task' = [interrupt(task) EXCEPT ![processing_task] = Cancel(@)]
                 /\ rpc' = "se_sleep"
                 /\ UNCHANGED << mode, announced >>
            ELSE \* lines 99-100
                 /\ mode' = "idle"
                 /\ ReaderSend("idle")
                 /\ rpc' = "se_idle"
                 /\ UNCHANGED << interrupted, task >>
       ELSE \* lines 117-118
            /\ mode' = "idle"
            /\ ReaderSend("idle")
            /\ UNCHANGED << rpc, interrupted, task >>
    /\ UNCHANGED << audio_buffer, processing_task, client_state,
                    current_tts_task, SplitVars >>

\* lines 94-100: asyncio.sleep(0.1) is over.  The cancelled task was ready to
\* run when the sleep began, so the event loop has run it by now.
StreamEndWake ==
    /\ rpc = "se_sleep"
    /\ ~task[processing_task].must_cancel
    /\ mode' = "idle"
    /\ ReaderSend("idle")
    /\ rpc' = "se_idle"
    /\ UNCHANGED << audio_buffer, is_recording, processing_task, client_state,
                    interrupted, current_tts_task, task, SplitVars >>

\* line 109 overwrites processing_task: a finished task object held before
\* is released, and its history with it
Released(r) ==
    IF r.pc \in {"done", "released"} THEN [NoTask EXCEPT !.pc = "released"] ELSE r

\* faulty variant of MayLaunch: a turn is launched whatever the held task does
MayLaunchAlways == TRUE

\* faulty variant of MayLaunch: a task that has caught its cancellation counts
\* as finished
MayLaunchAfterCancel ==
    \/ processing_task = 0
    \/ Done(task[processing_task])
    \/ task[processing_task].pc = "cancel_listening"

\* line 107: the test that guards create_task
MayLaunch == processing_task = 0 \/ Done(task[processing_task])

\* faulty variant of StreamEndLaunch: the reader records that the session
\* is speaking when it launches a turn
StreamEndLaunchSpeaking ==
    /\ rpc = "se_idle"
    /\ audio_buffer' = <<>>
    /\ IF MayLaunch
       THEN /\ task' = [t \in Turns |->
                         IF t = NextTurn THEN NewTask(audio_buffer)
                         ELSE Released(task[t])]
            /\ processing_task' = NextTurn
            /\ mode' = "speaking"
       ELSE UNCHANGED << task, processing_task, mode >>
    /\ rpc' = "recv"
    /\ UNCHANGED << is_recording, client_state, interrupted,
                    current_tts_task, announced, SplitVars >>

\* lines 102-115: the send of idle returned
StreamEndLaunch ==
    /\ rpc = "se_idle"
    /\ audio_buffer' = <<>>
    /\ IF MayLaunch
       THEN /\ task' = [t \in Turns |->
                         IF t = NextTurn THEN NewTask(audio_buffer)
                         ELSE Released(task[t])]
            /\ processing_task' = NextTurn
       ELSE UNCHANGED << task, processing_task >>
    /\ rpc' = "recv"
    /\ UNCHANGED << mode, is_recording, client_state, interrupted,
                    current_tts_task, announced, SplitVars >>

\* lines 120-127: interrupt
Interrupt ==
    /\ Receiving
    /\ interrupted' = TRUE
    /\ task' = IF processing_task # 0 /\ ~Done(task[processing_task])
               THEN [interrupt(task) EXCEPT ![processing_task] = Cancel(@)]
               ELSE interrupt(task)
    /\ mode' = "listening"
    /\ ReaderSend("listening")
    /\ UNCHANGED << rpc, audio_buffer, is_recording, processing_task,
                    client_state, current_tts_task, SplitVars >>

\* faulty variant of Disconnect: the pipeline is interrupted and the turn
\* task cancelled before the loop is left
DisconnectCancels ==
    /\ Receiving
    /\ rpc' = "closed"
    /\ interrupted' = TRUE
    /\ task' = IF processing_task # 0
               THEN [interrupt(task) EXCEPT ![processing_task] = Cancel(@)]
               ELSE interrupt(task)
    /\ UNCHANGED << mode, audio_buffer, is_recording, processing_task,
                    client_state, current_tts_task, announced, SplitVars >>

\* lines 129-130: disconnect
Disconnect ==
    /\ Receiving
    /\ rpc' = "closed"
    /\ UNCHANGED << mode, audio_buffer, is_recording, processing_task,
                    client_state, interrupted, current_tts_task, task, announced,
                    SplitVars >>

\* line 57: the peer closed the socket; iter_text ends and client_state is
\* DISCONNECTED from then on
PeerClose ==
    /\ rpc = "recv"
    /\ rpc' = "closed"
    /\ client_state' = "DISCONNECTED"
    /\ UNCHANGED << mode, audio_buffer, is_recording, processing_task,
                    interrupted, current_tts_task, task, announced, SplitVars >>

(* ---------------------- split_text_into_chunks ------------------------ *)
(* tts/coqui.py: the function CoquiTTSProvider.stream_speech cuts a text   *)
(* by before it posts the pieces to the synthesis service.  One action is  *)
(* one pass of its while loop.                                             *)

\* coqui.py line 15
MAX_CHUNK_LENGTH == 250

\* length of the texts split
MaxText == 5
\* largest max_length a text is split with
MaxLength == 2

\* the characters of the texts split: a letter, a terminator, a blank and a
\* line break
SplitChars == {"a", ".", " ", "\n"}

\* a text of two sentences of 12 characters each: "Hello world. How are you?"
HelloText ==
    << "H", "e", "l", "l", "o", " ", "w", "o", "r", "l", "d", ".", " ",
       "H", "o", "w", " ", "a", "r", "e", " ", "y", "o", "u", "?" >>

\* the arguments split_text_into_chunks is called with
SplitInputs ==
    { << s, n >> : s \in UNION {[1..k -> SplitChars] : k \in 0..MaxText},
                   n \in 1..MaxLength }
    \cup { << HelloText, 12 >> }

Max(S) == CHOOSE x \in S : \A y \in S : y <= x

Min(S) == CHOOSE x \in S : \A y \in S : x <= y

\* `.` of a pattern compiled without DOTALL matches s[i], ..., s[i + k - 1]
DotRun(s, i, k) == \A j \in i..(i + k - 1) : s[j] # "\n"

\* the k for which .{0,n}[.!?]\s matches s from index i on with k characters
\* taken by the dot
SentenceAt(s, n, i) ==
    {k \in 0..n : /\ i + k + 1 <= Len(s)
                  /\ DotRun(s, i, k)
                  /\ s[i + k] \in Terminators
                  /\ s[i + k + 1] \in Whitespace}

\* the k for which .{0,n}\s matches s from index i on with k characters
\* taken by the dot
WordAt(s, n, i) ==
    {k \in 0..n : /\ i + k <= Len(s)
                  /\ DotRun(s, i, k)
                  /\ s[i + k] \in Whitespace}

NoMatch == [found |-> FALSE, group |-> <<>>]

\* line 32: re.search(rf'.{{0,{n}}}[.!?]\s+', s): the leftmost start at which
\* the pattern matches, the dot taking as many characters as it can and \s+
\* the whole whitespace run after the terminator
SentenceMatch(s, n) ==
    LET starts == {i \in 1..Len(s) : SentenceAt(s, n, i) # {}}
    IN  IF starts = {} THEN NoMatch
        ELSE LET i == Min(starts)
                 k == Max(SentenceAt(s, n, i))
             IN  [found |-> TRUE,
                  group |-> SubSeq(s, i, i + k + LeadingWs(Drop(s, i + k)))]

\* line 41: re.search(rf'.{{0,{n}}}\s+', s)
WordMatch(s, n) ==
    LET starts == {i \in 1..Len(s) : WordAt(s, n, i) # {}}
    IN  IF starts = {} THEN NoMatch
        ELSE LET i == Min(starts)
                 k == Max(WordAt(s, n, i))
             IN  [found |-> TRUE,
                  group |-> SubSeq(s, i, i + k - 1 + LeadingWs(Drop(s, i + k - 1)))]

\* faulty variant of Whole: the text is stripped before it is returned
WholeStripped(s) == << Strip(s) >>

\* line 25: the result for a text that fits
Whole(s) == << s >>

\* no call of split_text_into_chunks is being followed
SplitIdle ==
    /\ text = <<>>
    /\ max_length = MAX_CHUNK_LENGTH
    /\ remaining = <<>>
    /\ chunks = <<>>
    /\ split_pc = "idle"

SessionVars == << rpc, mode, audio_buffer, is_recording, processing_task,
                  client_state, interrupted, current_tts_task, task, announced >>

\* lines 24-25: the text fits
ReturnWhole ==
    /\ split_pc = "call"
    /\ Len(text) <= max_length
    /\ chunks' = Whole(text)
    /\ split_pc' = "returned"
    /\ UNCHANGED << text, max_length, remaining, SessionVars >>

\* lines 27-28
EnterLoop ==
    /\ split_pc = "call"
    /\ Len(text) > max_length
    /\ chunks' = <<>>
    /\ remaining' = text
    /\ split_pc' = "loop"
    /\ UNCHANGED << text, max_length, SessionVars >>

\* faulty variant of CutOff: the chunk is kept and remaining is left as it is
CutOffNothing(chunk, rest) ==
    /\ chunks' = IF chunk # <<>> /\ Len(chunks) < MaxText
                 THEN Append(chunks, chunk) ELSE chunks
    /\ remaining' = remaining
    /\ UNCHANGED << text, max_length, split_pc, SessionVars >>

\* lines 34-37, 43-46, 50-53: chunk is cut; what follows the first len(chunk)
\* characters of remaining is stripped and kept
CutOff(chunk, rest) ==
    /\ chunks' = IF chunk # <<>> THEN Append(chunks, chunk) ELSE chunks
    /\ remaining' = Strip(rest)
    /\ UNCHANGED << text, max_length, split_pc, SessionVars >>

\* the while loop runs once more (line 30)
Looping == split_pc = "loop" /\ Len(remaining) > max_length

\* lines 32-38: split at a sentence boundary
SplitAtSentence ==
    /\ Looping
    /\ \E match \in { SentenceMatch(remaining, max_length) } :
         /\ match.found
         /\ \E chunk \in { Strip(match.group) } :
              CutOff(chunk, Drop(remaining, Len(chunk)))

\* lines 41-47: split at a word boundary
SplitAtWord ==
    /\ Looping
    /\ ~SentenceMatch(remaining, max_length).found
    /\ \E match \in { WordMatch(remaining, max_length) } :
         /\ match.found
         /\ \E chunk \in { Strip(match.group) } :
              CutOff(chunk, Drop(remaining, Len(chunk)))

\* lines 50-53: forced split at max_length
ForceSplit ==
    /\ Looping
    /\ ~SentenceMatch(remaining, max_length).found
    /\ ~WordMatch(remaining, max_length).found
    /\ CutOff(Take(remaining, max_length), Drop(remaining, max_length))

\* lines 55-58: the loop is over
SplitReturn ==
    /\ split_pc = "loop"
    /\ Len(remaining) <= max_length
    /\ chunks' = IF remaining # <<>> THEN Append(chunks, remaining) ELSE chunks
    /\ split_pc' = "returned"
    /\ UNCHANGED << text, max_length, remaining, SessionVars >>

(* --------------------------- specifications --------------------------- *)

\* handle_session lines 35-54
Init ==
    /\ rpc = "recv"
    /\ mode = "idle"
    /\ audio_buffer = <<>>
    /\ is_recording = FALSE
    /\ processing_task = 0
    /\ client_state = "CONNECTED"
    /\ interrupted = FALSE
    /\ current_tts_task = 0
    /\ task = [t \in Turns |-> NoTask]
    /\ announced = "idle"
    /\ SplitIdle

Next ==
    \/ StreamStart
    \/ AudioChunk
    \/ Malformed
    \/ StreamEnd
    \/ StreamEndWake
    \/ StreamEndLaunch
    \/ Interrupt
    \/ Disconnect
    \/ PeerClose
    \/ \E t \in Turns : TaskStep(t)

Spec == Init /\ [][Next]_vars

\* the event loop runs every task that is ready: a task whose await can
\* complete, or that has a CancelledError to receive, is resumed
SpecFair == Spec /\ \A t \in Turns : WF_vars(TaskStep(t))

(* The orchestrator on its own: one run of process_audio_chunk, drained by  *)
(* _process_audio, whose owner may call interrupt() at any time.  It starts *)
(* where a session is after stream_start, one audio chunk, stream_end and   *)
(* disconnect: turn 1 is created and the reader has stopped.                *)

\* VoicePipeline.interrupt() (lines 34-39), called on its own
PipelineInterrupt ==
    /\ interrupted' = TRUE
    /\ task' = interrupt(task)
    /\ UNCHANGED << SplitVars, ReaderVars, current_tts_task, announced >>

InitOrch ==
    /\ rpc = "closed"
    /\ mode = "idle"
    /\ audio_buffer = <<>>
    /\ is_recording = FALSE
    /\ processing_task = 1
    /\ client_state = "CONNECTED"
    /\ interrupted = FALSE
    /\ current_tts_task = 0
    /\ task = [t \in Turns |-> IF t = 1 THEN NewTask(<<1>>) ELSE NoTask]
    /\ announced = "idle"
    /\ SplitIdle

\* nothing calls Task.cancel() here
NextOrch ==
    \/ PipelineInterrupt
    \/ \E t \in Turns : RunStep(t) \/ TTSError(t) \/ STTYieldEmpty(t)

SpecOrch == InitOrch /\ [][NextOrch]_vars

(* _send_event on its own: a turn whose transcript and LLM text have been    *)
(* sent and whose synthesis call is in flight; the TTS provider yields audio *)
(* of any size, the sends return, and the peer may close the socket.         *)

InitSend ==
    /\ rpc = "recv"
    /\ mode = "idle"
    /\ audio_buffer = <<>>
    /\ is_recording = FALSE
    /\ processing_task = 1
    /\ client_state = "CONNECTED"
    /\ interrupted = FALSE
    /\ current_tts_task = 0
    /\ announced = "idle"
    /\ SplitIdle
    /\ task = [t \in Turns |->
                 IF t # 1 THEN NoTask
                 ELSE LET tr == TranscriptChunk(<<"h", "i">>, TRUE)
                          tx == AgentTextChunk(<<"a">>, FALSE)
                      IN  [NewTask(Bytes(1)) EXCEPT
                             !.pc = "ttsf", !.gen = "ttsf",
                             !.stt_input = Bytes(1),
                             !.transcript_text = <<"h", "i">>,
                             !.text_buffer = <<"a">>,
                             !.event = tx, !.produced = << tr, tx >>,
                             !.heard = << [text |-> <<"a">>, final |-> FALSE] >>,
                             !.synth = << <<"a">> >>,
                             !.sent = EventMsgs(tr, 1) \o EventMsgs(tx, 1),
                             !.chunk = 1, !.nitems = 2]]

NextSend ==
    \/ PeerClose
    \/ \E t \in Turns :
         \/ TTSYield(t)
         \/ TTSYieldLarge(t)
         \/ TTSEnd(t)
         \/ SendReturns(t)

SpecSend == InitSend /\ [][NextSend]_vars

(* split_text_into_chunks on its own: one call with any text and max_length  *)
(* of SplitInputs, in a process that holds no session.                       *)

InitSplit ==
    /\ rpc = "closed"
    /\ mode = "idle"
    /\ audio_buffer = <<>>
    /\ is_recording = FALSE
    /\ processing_task = 0
    /\ client_state = "DISCONNECTED"
    /\ interrupted = FALSE
    /\ current_tts_task = 0
    /\ task = [t \in Turns |-> NoTask]
    /\ announced = "idle"
    /\ \E in \in SplitInputs :
         /\ text = in[1]
         /\ max_length = in[2]
    /\ remaining = <<>>
    /\ chunks = <<>>
    /\ split_pc = "call"

NextSplit ==
    \/ ReturnWhole
    \/ EnterLoop
    \/ SplitAtSentence
    \/ SplitAtWord
    \/ ForceSplit
    \/ SplitReturn

SpecSplit == InitSplit /\ [][NextSplit]_vars

\* the function runs on: a statement that can be executed is executed
SpecSplitFair == SpecSplit /\ WF_vars(NextSplit)

(* ------------------------------ claims -------------------------------- *)

\* the messages of sent that carry an orchestrator event
RECURSIVE EventsOf(_)
EventsOf(sent) ==
    IF sent = <<>> THEN <<>>
    ELSE IF Head(sent).type \in {"transcript", "agent_text", "agent_audio"}
         THEN << Head(sent) >> \o EventsOf(Tail(sent))
         ELSE EventsOf(Tail(sent))

\* the messages a sequence of events becomes on the wire, in order
RECURSIVE MsgsOf(_, _)
MsgsOf(evs, by) ==
    IF evs = <<>> THEN <<>> ELSE EventMsgs(Head(evs), by) \o MsgsOf(Tail(evs), by)

IsPrefix(a, b) == Len(a) <= Len(b) /\ a = Take(b, Len(a))

Indices(seq, type) == {i \in 1..Len(seq) : seq[i].type = type}

SpeakingAt(sent) ==
    {i \in 1..Len(sent) : sent[i].type = "mode_change" /\ sent[i].mode = "speaking"}

\* number of agent_audio and speaking messages in sent
VoiceCount(sent) == Cardinality(Indices(sent, "agent_audio") \cup SpeakingAt(sent))

\* a cancellation of task t has been requested or has taken place
Stopped(r) == r.must_cancel \/ r.pc \in {"cancel_listening", "done", "released"}

\* C1: at most one turn task that has not finished exists at any time, and a
\* task is created only when the session holds no task or a finished one
C1_AtMostOneLiveTask ==
    /\ Cardinality({t \in Turns : Live(task[t])}) <= 1
    /\ \A t \in Turns : Live(task[t]) => processing_task = t

\* C1 witness: a second turn was launched once the first had finished
C1_Witness ==
    /\ processing_task = 2 /\ Live(task[2]) /\ Done(task[1])

\* C2 as stated: a stream_end handled while a turn is active leaves that turn
\* alone: neither interrupted nor cancelled
C2_StreamEndLeavesActiveTurn ==
    [][ (StreamEnd /\ processing_task # 0 /\ Live(task[processing_task]))
          => (task' = task /\ interrupted' = interrupted) ]_vars

\* C2 amended: a stream_end with recorded audio handled while a turn is
\* active interrupts the pipeline and cancels that turn (with no recorded
\* audio it leaves the turn alone); the recorded audio is never queued: when
\* the handler reaches its launch test it starts a turn on it if the held
\* task has finished, and drops it otherwise
C2_StreamEndCancelsActiveTurn ==
    /\ [][ (StreamEnd /\ processing_task # 0 /\ Live(task[processing_task]))
             => IF audio_buffer # <<>>
                THEN /\ interrupted'
                     /\ task'[processing_task].must_cancel
                     /\ rpc' = "se_sleep"
                ELSE task' = task /\ interrupted' = interrupted ]_vars
    /\ [][ StreamEndLaunch
             => /\ audio_buffer' = <<>>
                /\ IF processing_task # 0 /\ Live(task[processing_task])
                   THEN task' = task /\ processing_task' = processing_task
                   ELSE /\ task'[processing_task'].pc = "created"
                        /\ task'[processing_task'].audio_data = audio_buffer ]_vars

\* C2 witness: the reader sleeps after cancelling the active turn
C2_Witness ==
    /\ rpc = "se_sleep"
    /\ task[processing_task].must_cancel
    /\ task[processing_task].sent # <<>>

\* C3: an interrupt handled while a turn is active sets the interruption
\* flag, cancels the task and makes the mode listening; from then on the turn
\* stays stopped and sends no agent_audio and no speaking mode_change
C3_InterruptStopsTurn ==
    /\ [][ (Interrupt /\ processing_task # 0 /\ Live(task[processing_task]))
             => /\ interrupted'
                /\ task'[processing_task].must_cancel
                /\ mode' = "listening"
                /\ announced' = "listening" ]_vars
    /\ [][ \A t \in Turns :
             Stopped(task[t])
               => /\ Stopped(task'[t])
                  /\ VoiceCount(task'[t].sent) <= VoiceCount(task[t].sent) ]_vars

\* C3 witness: an interrupt was handled after the last stream_end, while the
\* turn that already streamed audio was active
C3_Witness ==
    /\ rpc = "recv" /\ mode = "listening" /\ ~is_recording
    /\ processing_task # 0
    /\ Live(task[processing_task])
    /\ task[processing_task].must_cancel
    /\ Indices(task[processing_task].sent, "agent_audio") # {}

\* C4 as stated: a stream_start handled while the turn has announced speaking
\* and has not finished interrupts and cancels that turn, clears the buffer
\* and makes the mode listening
C4_StreamStartCancelsSpeakingTurn ==
    [][ (/\ StreamStart
         /\ processing_task # 0
         /\ Live(task[processing_task])
         /\ SpeakingAt(task[processing_task].sent) # {})
          => /\ interrupted'
             /\ task'[processing_task].must_cancel
             /\ audio_buffer' = <<>>
             /\ mode' = "listening" ]_vars

AudioEvents(r) == Cardinality(Indices(r.produced, "agent_audio"))

\* C5: once interrupt() has been called after a synthesis call of the turn
\* was made, the turn yields no further AgentAudioChunk, whatever the
\* providers deliver
C5_NoAudioAfterInterrupt ==
    [][ \A t \in Turns :
          (interrupted /\ task[t].synth # <<>>)
            => AudioEvents(task'[t]) <= AudioEvents(task[t]) ]_vars

\* C5 witness: the turn ended interrupted after sentence 1 was synthesized,
\* with a later complete sentence still in its buffer
C5_Witness ==
    /\ interrupted
    /\ task[1].gen = "end"
    /\ AudioEvents(task[1]) >= 1
    /\ Len(task[1].synth) = 1
    /\ SentenceEnd(task[1].text_buffer) > 0

\* a synthesis call of the turn is in flight
SynthesisOutstanding(r) == Live(r) /\ r.gen \in {"tts", "ttsf"}

\* C6 as stated: when interrupt() returns no synthesis call is outstanding
C6_InterruptAbandonsSynthesis ==
    [][ PipelineInterrupt
          => \A t \in Turns : ~SynthesisOutstanding(task'[t]) ]_vars

\* C7: the event messages of a turn are sent in the order the orchestrator
\* produced the events, the transcript first, and every produced event has
\* been sent by the time the next one is pulled
C7_EventsSentInProductionOrder ==
    \A t \in Turns :
      LET r == task[t]
      IN  /\ IsPrefix(EventsOf(r.sent), MsgsOf(r.produced, t))
          /\ (IsConnected /\ r.pc \in {"stt", "llm", "tts", "ttsf", "sent_listening"})
               => EventsOf(r.sent) = MsgsOf(r.produced, t)
          /\ \A i \in 1..Len(r.produced) :
               r.produced[i].type = "transcript" <=> i = 1

\* C7 witness: a finished turn sent text after audio after the transcript
C7_Witness ==
    \E t \in Turns :
      /\ task[t].pc = "done"
      /\ \E i, j \in 1..Len(task[t].sent) :
           /\ i < j
           /\ task[t].sent[i].type = "agent_audio"
           /\ task[t].sent[j].type = "agent_text"

\* C8: once a later turn has sent a message, an earlier turn's task sends
\* nothing more
C8_NoInterleavingAcrossTurns ==
    [][ \A t, u \in Turns :
          (t < u /\ task[u].sent # <<>>)
            => Len(task'[t].sent) <= Len(task[t].sent) ]_vars

\* C8 witness: the second turn of a session streams audio
C8_Witness ==
    /\ Done(task[1])
    /\ Indices(task[2].sent, "agent_audio") # {}

\* the events produced before the first AgentAudioChunk
RECURSIVE BeforeAudio(_)
BeforeAudio(evs) ==
    IF evs = <<>> \/ Head(evs).type = "agent_audio" THEN <<>>
    ELSE << Head(evs) >> \o BeforeAudio(Tail(evs))

\* C9: speaking is sent at most once per turn, only once an AgentAudioChunk
\* has been produced, at the first one and before any agent_audio message
C9_SpeakingOnceBeforeFirstAudio ==
    \A t \in Turns :
      LET r  == task[t]
          sp == SpeakingAt(r.sent)
          au == Indices(r.sent, "agent_audio")
      IN  /\ Cardinality(sp) <= 1
          /\ \A j \in au : \E i \in sp : i < j
          /\ sp # {} => AudioEvents(r) >= 1
          /\ (AudioEvents(r) >= 1 /\ IsConnected) => sp # {}
          /\ \A i \in sp :
               EventsOf(Take(r.sent, i)) = MsgsOf(BeforeAudio(r.produced), t)

\* C9 witness: a turn sent speaking and then two audio messages
C9_Witness ==
    \E t \in Turns :
      /\ SpeakingAt(task[t].sent) # {}
      /\ Cardinality(Indices(task[t].sent, "agent_audio")) >= 2

\* C10 as stated: a finished run has sent mode_change listening as its last
\* message, if the socket is connected
C10_RunEndsWithListening ==
    \A t \in Turns :
      (task[t].pc = "done" /\ IsConnected)
        => /\ task[t].sent # <<>>
           /\ task[t].sent[Len(task[t].sent)].type = "mode_change"
           /\ task[t].sent[Len(task[t].sent)].mode = "listening"

\* the turn the session holds has produced an AgentAudioChunk and has neither
\* finished nor been cancelled or interrupted
SpeakingTurn ==
    /\ processing_task # 0
    /\ AudioEvents(task[processing_task]) >= 1
    /\ Live(task[processing_task])
    /\ ~task[processing_task].must_cancel
    /\ ~interrupted

\* C11 as stated: while the connection is open, the mode the session is in
\* (the last mode announced to the client) is speaking only while the current
\* turn has produced an AgentAudioChunk and has not completed, been cancelled
\* or been interrupted since; otherwise it is idle or listening.  (The
\* reader's own variable mode is never speaking at all.)
C11_SpeakingOnlyWhileTurnSpeaks ==
    /\ announced \in {"idle", "listening", "speaking"}
    /\ (IsConnected /\ announced = "speaking") => SpeakingTurn

\* C12: between two inbound messages the buffer is non-empty only if
\* is_recording is true: a stream_end's handler leaves it empty (consumed by a
\* turn or cleared), and a chunk handled while is_recording is false adds
\* nothing
C12_BufferOnlyWhileRecording ==
    /\ [](Receiving => (audio_buffer # <<>> => is_recording))
    /\ [][ StreamEndLaunch
             => /\ audio_buffer' = <<>> /\ ~is_recording'
                /\ Receiving'
                /\ MayLaunch => task'[processing_task'].audio_data = audio_buffer
           ]_vars
    /\ [][ ~is_recording => Len(audio_buffer') <= Len(audio_buffer) ]_vars

\* C12 witness: the audio of a stream_end was consumed by turn 1; the buffer
\* is empty and nothing is recorded when the next message is read
C12_Witness ==
    /\ Receiving /\ ~is_recording /\ audio_buffer = <<>>
    /\ processing_task = 1 /\ Live(task[1])
    /\ task[1].audio_data # <<>>

\* C13 as stated: when the STT stream of a turn ends without a final
\* transcript, the turn has produced and sent no event, and the run leaves the
\* client in mode idle
C13_NoTranscriptReturnsToIdle ==
    [][ \A t \in Turns :
          STTEnd(t)
            => /\ task'[t].produced = <<>>
               /\ EventsOf(task'[t].sent) = <<>>
               /\ IsConnected => announced' = "idle" ]_vars

\* C13 amended: when the STT stream of a turn ends without a final
\* transcript, the turn has produced and sent no event; the run then sends
\* mode_change listening as its only message (if the socket is connected), so
\* the last mode announced to the client is listening, not idle
C13_NoTranscriptReturnsToListening ==
    [][ \A t \in Turns :
          STTEnd(t)
            => /\ task'[t].produced = <<>>
               /\ EventsOf(task'[t].sent) = <<>>
               /\ task'[t].gen = "end"
               /\ IsConnected
                    => /\ task'[t].sent = << ModeMsg("listening", t) >>
                       /\ announced' = "listening" ]_vars

\* C13 witness: turn 1 finished, uncancelled, after its STT stream yielded
\* one item that was no final transcript and then ended
C13_Witness ==
    /\ processing_task = 1 /\ task[1].pc = "done" /\ ~interrupted
    /\ task[1].nitems = 1
    /\ task[1].produced = <<>>
    /\ task[1].sent = << ModeMsg("listening", 1) >>
    /\ IsConnected /\ mode = "idle" /\ announced = "listening"

\* the LLM text chunks the turn has received and yielded, in order
TextChunks(r) == SelectSeq(r.produced, LAMBDA ev : ev.type = "agent_text")

\* the text of the LLM chunks received so far
RECURSIVE Joined(_)
Joined(evs) == IF evs = <<>> THEN <<>> ELSE Head(evs).text \o Joined(Tail(evs))

\* C14 as stated: a sentence is handed to synthesis as soon as the LLM chunks
\* received so far complete it: once the chunks "a" and " b." have arrived
\* (the analogue of "Hi" and " there."), and while the final chunk is still
\* awaited, the synthesis call for "a b." has been made
C14_SentenceDispatchedWhenComplete ==
    \A t \in Turns :
      ( /\ task[t].pc = "llm"
        /\ Joined(TextChunks(task[t])) = <<"a", " ", "b", ".">> )
        => task[t].synth = << <<"a", " ", "b", ".">> >>

\* C15: a failure of the synthesis call of a sentence sends no error message
\* and raises nothing to the drain loop; the turn goes on with the next
\* complete sentence of the buffer, else with the next LLM chunk or the
\* flush, and otherwise ends normally
C15_SynthesisFailureSkipsSentence ==
    [][ \A t \in Turns :
          TTSError(t)
            => /\ Indices(task'[t].sent, "error") = Indices(task[t].sent, "error")
               /\ task'[t].produced = task[t].produced
               /\ task'[t].pc \in {"tts", "llm", "ttsf", "sent_listening", "done"}
               /\ (task[t].pc = "tts" /\ SentenceEnd(task[t].text_buffer) > 0)
                    => /\ task'[t].pc = "tts"
                       /\ Len(task'[t].synth) = Len(task[t].synth) + 1
               /\ task'[t].pc = "done" => ~IsConnected
               /\ task'[t].pc = "sent_listening"
                    => task'[t].sent = Append(task[t].sent, ModeMsg("listening", t))
      ]_vars

\* C15 witness: a reply of three sentences whose second synthesis failed: the
\* run ended with listening, with audio for sentences one and three and
\* without an error message
C15_Witness ==
    /\ task[1].pc = "done"
    /\ Len(task[1].synth) = 3
    /\ task[1].failed = {2}
    /\ task[1].voiced = {1, 3}
    /\ Cardinality(Indices(task[1].sent, "agent_audio")) = 2
    /\ Indices(task[1].sent, "error") = {}
    /\ task[1].sent[Len(task[1].sent)] = ModeMsg("listening", 1)

\* C16 as stated: a run in which the STT or the LLM provider raised has sent
\* exactly one error message and, after it, mode_change listening as its last
\* message (while the socket is connected)
C16_ProviderFailureErrorThenListening ==
    \A t \in Turns :
      LET sent == task[t].sent
      IN  (IsConnected /\ task[t].pc = "done" /\ Indices(sent, "error") # {})
            => /\ Cardinality(Indices(sent, "error")) = 1
               /\ Len(sent) >= 2
               /\ sent[Len(sent) - 1] = ErrorMsg(t)
               /\ sent[Len(sent)] = ModeMsg("listening", t)

\* s is base64: alphabet characters, then at most two padding characters,
\* four characters per group
ValidBase64(s) ==
    /\ Len(s) % 4 = 0
    /\ \A i \in 1..Len(s) : s[i] \in B64Chars \/ (s[i] = B64Pad /\ i > Len(s) - 2)
    /\ \A i \in 1..(Len(s) - 1) : s[i] = B64Pad => s[i + 1] = B64Pad

\* C17 as stated: a malformed inbound message, and an audio chunk whose
\* payload is not valid base64, leave mode, buffer, is_recording, the turn
\* task and the interruption flag unchanged, and the reader goes on reading
C17_MalformedMessageChangesNothing ==
    [][ /\ Malformed => UNCHANGED vars
        /\ \A audio_data \in Payloads :
             (AudioChunkOf(audio_data) /\ ~ValidBase64(audio_data))
               => /\ UNCHANGED << mode, audio_buffer, is_recording,
                                  processing_task, task, interrupted >>
                  /\ Receiving' ]_vars

\* C18: an outbound send of a turn task that raises sends no error message,
\* adds no event and ends the generator only where a returning send would
\* (the failure reaches neither the drain loop nor the orchestrator; after
\* the failed send of the error message the run just ends), and the reader's
\* state and the interruption flag are untouched
C18_SendFailureContained ==
    [][ \A t \in Turns :
          SendFails(t)
            => /\ Indices(task'[t].sent, "error") = Indices(task[t].sent, "error")
               /\ task'[t].pc # "sent_error"
               /\ task'[t].produced = task[t].produced
               /\ task[t].pc = "sent_speaking"
                    => /\ task'[t].gen = task[t].gen
                       /\ task'[t].speaking_mode_sent
               /\ task[t].pc = "sent_event"
                    => task'[t].pc \in {"stt", "llm", "tts", "ttsf",
                                        "sent_listening", "done"}
               /\ task[t].pc \in {"sent_listening", "cancel_listening",
                                   "sent_error", "error_listening"}
                    => task'[t].pc = "done" /\ task'[t].sent = task[t].sent
               /\ UNCHANGED << SplitVars, ReaderVars, interrupted >> ]_vars

\* C18 witness: the send of the error message of turn 1 raised: the run
\* ended there, uncancelled, and the reader goes on
C18_Witness ==
    /\ IsConnected /\ Receiving /\ ~interrupted
    /\ processing_task = 1 /\ task[1].pc = "done"
    /\ task[1].sent # <<>>
    /\ task[1].sent[Len(task[1].sent)] = ErrorMsg(1)

\* C19: the bytes a turn hands to the STT provider are the buffer content of
\* the stream_end that launched it: the buffer does not change between the
\* stream_end and the snapshot, the snapshot is what the task is created
\* with, and no message handled while the turn runs changes it
C19_TurnAudioIsSnapshot ==
    /\ [][ \A t \in Turns :
             TaskStart(t) => /\ task'[t].stt_input = task[t].audio_data
                             /\ task[t].audio_data # <<>> ]_vars
    /\ [][ \A t \in Turns :
             (Live(task[t]) /\ task[t].pc # "created")
               => task'[t].stt_input = task[t].stt_input ]_vars
    /\ [][ (StreamEnd \/ StreamEndWake) => audio_buffer' = audio_buffer ]_vars
    /\ [][ (StreamEndLaunch /\ MayLaunch)
             => /\ task'[processing_task'].audio_data = audio_buffer
                /\ audio_buffer' = <<>> ]_vars
    /\ [][ \A t \in Turns :
             Live(task[t]) => task'[t].audio_data = task[t].audio_data ]_vars

\* C19 witness: a stream_start was handled after turn 1 had read its audio:
\* the reader's buffer is empty again and the turn's bytes are what they were
C19_Witness ==
    /\ is_recording /\ audio_buffer = <<>>
    /\ Live(task[1]) /\ task[1].pc = "llm"
    /\ task[1].stt_input = Bytes(1)

\* the number of pieces of CHUNK_SIZE characters that cover len characters
Pieces(len) == ((len - 1) \div CHUNK_SIZE) + 1

\* the chunk messages of an agent_audio event of len base64 characters: piece
\* k of Pieces(len) carries chunk_index k - 1 and the characters from
\* (k - 1) * CHUNK_SIZE on, and only the last one can be final
SplitMessages(ev, by, len) ==
    [k \in 1..Pieces(len) |->
       [type |-> "agent_audio", by |-> by, mode |-> "", text |-> <<>>,
        audio |-> IF k < Pieces(len) THEN CHUNK_SIZE
                  ELSE len - ((Pieces(len) - 1) * CHUNK_SIZE),
        final |-> (k = Pieces(len)) /\ ev.final,
        start |-> (k - 1) * CHUNK_SIZE,
        chunk_index |-> k - 1,
        total_chunks |-> Pieces(len)]]

\* one message without chunk fields
WholeMessage(ev, by, len) ==
    << [type |-> "agent_audio", by |-> by, mode |-> "", text |-> <<>>,
        audio |-> len, final |-> ev.final] >>

\* the agent_audio messages of sent
AudioMsgs(sent) == SelectSeq(sent, LAMBDA m : m.type = "agent_audio")

\* the audio messages the claim expects for the audio events of evs; unsent
\* tells which events at or below the threshold are not sent at all
RECURSIVE ExpectedAudio(_, _, _)
ExpectedAudio(evs, by, unsent) ==
    IF evs = <<>> THEN <<>>
    ELSE LET ev  == Head(evs)
             len == B64Len(ev.audio)
         IN  ( IF ev.type # "agent_audio" \/ ev \in unsent THEN <<>>
               ELSE IF len > MAX_BASE64_SIZE THEN SplitMessages(ev, by, len)
               ELSE WholeMessage(ev, by, len) )
             \o ExpectedAudio(Tail(evs), by, unsent)

\* the audio messages of every turn are the expected ones, in order, up to
\* the message being sent, and all of them once the send is over and the
\* socket still connected
AudioSentAs(unsent) ==
    \A t \in Turns :
      LET got  == AudioMsgs(task[t].sent)
          want == ExpectedAudio(task[t].produced, t, unsent)
      IN  /\ IsPrefix(got, want)
          /\ (IsConnected /\ task[t].pc \in {"tts", "ttsf", "sent_listening"})
               => got = want

Returned == split_pc = "returned"

\* s is the units us in order, with nothing but whitespace before, between
\* and after them
RECURSIVE Covers(_, _)
Covers(s, us) ==
    IF us = <<>> THEN Strip(s) = <<>>
    ELSE \E w \in 0..LeadingWs(s) :
           /\ IsPrefix(Head(us), Drop(s, w))
           /\ Covers(Drop(s, w + Len(Head(us))), Tail(us))

\* C21 as stated: the units returned, concatenated in order, are the text up
\* to whitespace at the split points: each unit is the start of what is left
\* of the text, and nothing is left after the last one
C21_UnitsReproduceText == Returned => Covers(text, chunks)

\* s holds a run of more than n characters without whitespace
HasLongWord(s, n) ==
    \E i \in 1..Len(s) :
      /\ i + n <= Len(s)
      /\ \A j \in i..(i + n) : s[j] \notin Whitespace

\* C22 as stated: no unit returned is longer than max_length, unless a word
\* of the text is longer than max_length
C22_UnitsWithinMaxLength ==
    (Returned /\ ~HasLongWord(text, max_length))
      => \A i \in 1..Len(chunks) : Len(chunks[i]) <= max_length

\* C23: a text shorter than max_length is returned as one unit, the text
\* itself
C23_ShortTextIsOneUnit ==
    (Returned /\ Len(text) < max_length) => chunks = << text >>

\* C23 witness: a text of one blank was split at 2 and came back as it was
C23_Witness ==
    /\ Returned /\ max_length = 2
    /\ text = << " " >>
    /\ chunks = << << " " >> >>

\* the terminators of s in the window [0, n] (the first n + 1 characters)
\* that whitespace follows
WindowTerminators(s, n) ==
    {p \in 1..(n + 1) : /\ p + 1 <= Len(s)
                        /\ s[p] \in Terminators
                        /\ s[p + 1] \in Whitespace}

\* C24 as stated: when remaining is longer than max_length and its window
\* [0, max_length] holds a terminator followed by whitespace, the unit cut is
\* remaining up to the last such terminator and the scan goes on after the
\* whitespace that follows it; "Hello world. How are you?" split at 12 is
\* "Hello world." and "How are you?"
C24_SplitAtLastTerminatorInWindow ==
    /\ []( (Returned /\ text = HelloText /\ max_length = 12)
             => chunks = << Take(HelloText, 12), Drop(HelloText, 13) >> )
    /\ [][ (Looping /\ WindowTerminators(remaining, max_length) # {})
             => LET p == Max(WindowTerminators(remaining, max_length))
                IN  /\ chunks' = Append(chunks, Strip(Take(remaining, p)))
                    /\ remaining' = Strip(Drop(remaining, p)) ]_vars

\* C25 as stated: no unit returned is empty or only whitespace
C25_NoEmptyUnit ==
    Returned => \A i \in 1..Len(chunks) : Strip(chunks[i]) # <<>>

\* C26 as stated: whenever the mode is listening, however it was entered,
\* the handler of a voice_audio_chunk with a valid base64 payload appends the
\* decoded bytes to the end of the buffer and leaves the mode listening
C26_ListeningChunkAppended ==
    \A audio_data \in Payloads :
      ( /\ Receiving
        /\ mode = "listening"
        /\ ValidBase64(audio_data)
        /\ Len(audio_buffer) + Len(B64Decode(audio_data).bytes) <= MaxBuf )
        => ENABLED ( /\ AudioChunkOf(audio_data)
                     /\ audio_buffer' = audio_buffer \o B64Decode(audio_data).bytes
                     /\ mode' = "listening" )

\* C27: a stream_end handled with a non-empty buffer while no turn is running
\* makes the mode idle and then, with nothing in between, clears the buffer
\* and launches one turn task on the bytes the buffer held; handled with an
\* empty buffer it makes the mode idle and launches nothing
C27_StreamEndLaunchesOneTurn ==
    /\ [][ (StreamEnd /\ audio_buffer # <<>> /\ MayLaunch)
             => /\ mode' = "idle"
                /\ IsConnected => announced' = "idle"
                /\ rpc' = "se_idle"
                /\ audio_buffer' = audio_buffer
                /\ task' = task
                /\ MayLaunch' ]_vars
    /\ [][ (rpc = "se_idle" /\ MayLaunch) => StreamEndLaunch ]_vars
    /\ [][ (StreamEndLaunch /\ MayLaunch)
             => LET n == processing_task'
                IN  /\ audio_buffer # <<>> /\ audio_buffer' = <<>>
                    /\ task[n].pc = "none"
                    /\ task'[n].pc = "created"
                    /\ task'[n].audio_data = audio_buffer
                    /\ \A t \in Turns \ {n} : ~Live(task'[t])
                    /\ mode' = "idle"
                    /\ Receiving' ]_vars
    /\ [][ (StreamEnd /\ audio_buffer = <<>>)
             => /\ task' = task /\ processing_task' = processing_task
                /\ audio_buffer' = <<>>
                /\ mode' = "idle"
                /\ Receiving' ]_vars

\* C27 witness: the second stream_end of a session launched turn 2 on its
\* byte once turn 1 had finished; the mode is idle and the buffer empty
C27_Witness ==
    /\ Receiving /\ mode = "idle" /\ announced = "idle"
    /\ audio_buffer = <<>>
    /\ processing_task = 2
    /\ task[1].pc = "released"
    /\ task[2].pc = "created" /\ task[2].audio_data = Bytes(1)

\* C28: while the transcript of a turn is empty or only whitespace the turn
\* has not called the LLM or the synthesizer and has yielded no AgentTextChunk
\* and no AgentAudioChunk; and the generator ends when it is resumed after a
\* whitespace-only transcript
C28_BlankTranscriptEndsTurn ==
    /\ [](\A t \in Turns :
            Strip(task[t].transcript_text) = <<>>
              => /\ task[t].gen \in {"stt", "end"}
                 /\ task[t].pc \notin {"llm", "tts", "ttsf"}
                 /\ task[t].synth = <<>>
                 /\ Indices(task[t].produced, "agent_text") = {}
                 /\ Indices(task[t].produced, "agent_audio") = {})
    /\ [][ \A t \in Turns :
             ( /\ SendReturns(t)
               /\ task[t].event.type = "transcript"
               /\ Strip(task[t].transcript_text) = <<>> )
               => /\ task'[t].gen = "end"
                  /\ task'[t].produced = task[t].produced ]_vars

\* C28 witness: the turn ended, uninterrupted, after a transcript of one
\* blank: the transcript is the only event it yielded
C28_Witness ==
    /\ task[1].pc = "done" /\ ~interrupted
    /\ task[1].transcript_text = << " " >>
    /\ task[1].produced = << TranscriptChunk(<< " " >>, TRUE) >>
    /\ task[1].sent[Len(task[1].sent)] = ModeMsg("listening", 1)

\* the texts us in order, with nothing but whitespace before and between
\* them, are the start of s
RECURSIVE PrefixCovers(_, _)
PrefixCovers(s, us) ==
    IF us = <<>> THEN TRUE
    ELSE \E w \in 0..LeadingWs(s) :
           /\ IsPrefix(Head(us), Drop(s, w))
           /\ PrefixCovers(Drop(s, w + Len(Head(us))), Tail(us))

\* C29: the AgentTextChunks a turn has yielded are, one for one and in order,
\* the LLM chunks it received while it was not interrupted, each with the
\* text and the final flag of its chunk; and when an AgentAudioChunk is
\* yielded, every sentence handed to the synthesizer so far lies in the text
\* of the AgentTextChunks yielded before it
C29_TextEventPerChunkBeforeAudio ==
    /\ [](\A t \in Turns :
            TextChunks(task[t]) =
              [i \in 1..Len(task[t].heard) |->
                 AgentTextChunk(task[t].heard[i].text, task[t].heard[i].final)])
    /\ [][ \A t \in Turns :
             AudioEvents(task'[t]) > AudioEvents(task[t])
               => /\ task[t].synth # <<>>
                  /\ task'[t].synth = task[t].synth
                  /\ TextChunks(task'[t]) = TextChunks(task[t])
                  /\ PrefixCovers(Joined(TextChunks(task[t])), task[t].synth)
       ]_vars

\* C29 witness: an uninterrupted turn received "a. " and then an empty final
\* chunk: it yielded the text of the first, the audio of its sentence, then
\* the text of the second
C29_Witness ==
    /\ task[1].pc = "done" /\ ~interrupted
    /\ task[1].heard = << [text |-> <<"a", ".", " ">>, final |-> FALSE],
                          [text |-> <<>>, final |-> TRUE] >>
    /\ task[1].produced =
         << TranscriptChunk(<<"h", "i">>, TRUE),
            AgentTextChunk(<<"a", ".", " ">>, FALSE),
            AgentAudioChunk(1, TRUE),
            AgentTextChunk(<<>>, TRUE) >>

\* the generator of the turn ran to its end: it was not interrupted and no
\* provider error left it
RanToEnd(r) ==
    /\ r.gen = "end" /\ ~interrupted
    /\ r.transcript_text # <<>>
    /\ Indices(r.sent, "error") = {}
    /\ r.pc \in {"sent_listening", "done"}

\* C30: the texts handed to the synthesizer, in call order, are the start of
\* the text of the LLM chunks received, up to whitespace between them; while
\* the next LLM chunk is awaited no complete sentence is left in the buffer;
\* and once an uninterrupted turn has run to its end they are the whole of
\* that text: what was left in the buffer went to the synthesizer in the
\* final flush
C30_SynthesizedTextIsLLMText ==
    \A t \in Turns :
      LET r   == task[t]
          all == Joined(TextChunks(r))
      IN  /\ PrefixCovers(all, r.synth)
          /\ \A i \in 1..Len(r.synth) : r.synth[i] = Strip(r.synth[i])
                                        /\ r.synth[i] # <<>>
          /\ r.pc = "llm" => SentenceEnd(r.text_buffer) = 0
          /\ RanToEnd(r) => Covers(all, r.synth)

\* C30 witness: an uninterrupted turn received "a. " and "a" and then the
\* end of the LLM stream: the sentence was synthesized when it arrived and
\* the trailing text in the flush
C30_Witness ==
    /\ RanToEnd(task[1])
    /\ Joined(TextChunks(task[1])) = <<"a", ".", " ", "a">>
    /\ task[1].synth = << <<"a", ".">>, <<"a">> >>

\* C31: the first step of a turn clears the interruption flag, whatever an
\* interrupt handled before the turn started left in it; so while a started
\* turn runs the flag is set only if this turn itself has been cancelled
C31_FlagResetAtTurnStart ==
    /\ [][ \A t \in Turns : TaskStart(t) => ~interrupted' ]_vars
    /\ [](\A t \in Turns :
            ( /\ Live(task[t]) /\ task[t].pc # "created"
              /\ ~task[t].must_cancel /\ task[t].pc # "cancel_listening" )
              => ~interrupted)

\* C31 witness: a turn has been launched and not yet started while the flag
\* is still set by an interrupt handled before the launch
C31_Witness ==
    /\ interrupted
    /\ processing_task # 0
    /\ task[processing_task].pc = "created"
    /\ ~task[processing_task].must_cancel

\* C32: the handler of a stream_end returns to the reading loop with
\* is_recording false, the buffer empty and the mode idle, and is_recording is
\* false all through it; when the task it cancelled has not finished by the
\* launch test, the buffer is cleared and no task is created: the bytes are
\* held by nothing afterwards
C32_StreamEndLeavesNothingRecorded ==
    /\ [](rpc \in {"se_sleep", "se_idle"} => ~is_recording /\ audio_buffer # <<>>)
    /\ [][ ((StreamEnd /\ audio_buffer = <<>>) \/ StreamEndLaunch)
             => /\ Receiving'
                /\ ~is_recording'
                /\ audio_buffer' = <<>>
                /\ mode' = "idle" ]_vars
    /\ [][ (StreamEndLaunch /\ processing_task # 0 /\ Live(task[processing_task]))
             => /\ task' = task
                /\ processing_task' = processing_task ]_vars

\* C32 witness: the reader has woken from its sleep and announced idle while
\* the task it cancelled still awaits the send of listening: the recorded
\* byte is about to be dropped
C32_Witness ==
    /\ rpc = "se_idle" /\ mode = "idle"
    /\ audio_buffer = Bytes(1)
    /\ processing_task = 1
    /\ task[1].pc = "cancel_listening"

\* C33: the handler of a disconnect message changes nothing but the reader's
\* position; once the reader has left its loop no task is cancelled and the
\* pipeline is not interrupted, and a turn in flight can always take its next
\* step
C33_DisconnectLeavesTurnRunning ==
    /\ [][ Disconnect
             => /\ rpc' = "closed"
                /\ UNCHANGED << mode, audio_buffer, is_recording, processing_task,
                                client_state, interrupted, current_tts_task,
                                task, announced >> ]_vars
    /\ [][ rpc = "closed"
             => /\ interrupted' => interrupted
                /\ \A t \in Turns :
                     task'[t].must_cancel => task[t].must_cancel ]_vars
    /\ [](\A t \in Turns :
            (rpc = "closed" /\ Live(task[t])) => ENABLED TaskStep(t))

\* C33 witness: the reader has left its loop on a disconnect message, the
\* socket still reports itself connected, and the turn that was in flight
\* has since been sending the audio of its reply, neither interrupted nor
\* cancelled
C33_Witness ==
    /\ rpc = "closed" /\ IsConnected
    /\ ~interrupted
    /\ Live(task[1]) /\ ~task[1].must_cancel
    /\ task[1].pc = "sent_event" /\ task[1].event.type = "agent_audio"

\* C34: a turn task whose cancellation has been requested finishes; and a
\* stream_end with recorded audio handled once the held task has finished
\* goes straight to the launch test, which creates a new task
C34_CancelledTaskFinishes ==
    /\ \A t \in Turns : task[t].must_cancel ~> Done(task[t])
    /\ [][ ( /\ StreamEnd /\ audio_buffer # <<>>
             /\ processing_task # 0 /\ Done(task[processing_task]) )
             => rpc' = "se_idle" /\ task' = task ]_vars
    /\ [][ (StreamEndLaunch /\ processing_task # 0 /\ Done(task[processing_task]))
             => /\ processing_task' # processing_task
                /\ task'[processing_task'].pc = "created"
                /\ task'[processing_task'].audio_data = audio_buffer ]_vars

\* C34 witness: the task a stream_end cancelled has finished while the reader
\* sleeps, and the reader goes on to launch the next turn
C34_Witness ==
    /\ rpc = "se_sleep"
    /\ processing_task = 1
    /\ task[1].pc = "done"
    /\ audio_buffer # <<>>

\* C35: a synthesis call is started only when none is outstanding or in the
\* step that ends the outstanding one, so at most one is outstanding; an audio
\* event is yielded only by the outstanding call, the latest one, so the
\* audio of a sentence comes before that of the next; and while a call is
\* outstanding no LLM chunk is received and no text event is yielded
C35_SynthesisSequential ==
    /\ [][ \A t \in Turns :
             LET r  == task[t]
                 r2 == task'[t]
             IN  /\ r2.synth # r.synth
                      => /\ Len(r2.synth) = Len(r.synth) + 1
                         /\ IsPrefix(r.synth, r2.synth)
                         /\ SynthesisOutstanding(r2)
                         /\ SynthesisOutstanding(r) => r.pc = "tts"
                 /\ AudioEvents(r2) > AudioEvents(r)
                      => /\ SynthesisOutstanding(r) /\ r.pc = r.gen
                         /\ r2.synth = r.synth
                         /\ r2.voiced = r.voiced \cup {Len(r.synth)}
                 /\ SynthesisOutstanding(r)
                      => /\ r2.heard = r.heard
                         /\ TextChunks(r2) = TextChunks(r)
                         /\ r2.llm_final = r.llm_final ]_vars
    /\ [](\A t \in Turns :
            /\ \A k \in task[t].voiced : k <= Len(task[t].synth)
            /\ SynthesisOutstanding(task[t]) => task[t].pc # "llm")

\* C35 witness: a turn whose LLM chunk held several sentences has yielded
\* audio for the first and then for the second
C35_Witness ==
    /\ task[1].voiced = {1, 2}
    /\ task[1].failed = {}
    /\ AudioEvents(task[1]) >= 2
    /\ Len(TextChunks(task[1])) = 1

\* C36: a turn yields at most one transcript event, as its first event, with
\* the final flag and a text that is not empty; an STT result that is not
\* final or has no text yields nothing and the STT stream is read on, and the
\* first result that is final and has text is yielded
C36_OneFinalTranscriptFirst ==
    /\ [](\A t \in Turns :
            LET p == task[t].produced
            IN  /\ Indices(p, "transcript") \subseteq {1}
                /\ \A i \in Indices(p, "transcript") :
                     p[i].final /\ p[i].text # <<>>)
    /\ [][ \A t \in Turns : \A item \in STTItems \cup EmptySTTItems :
             STTYieldFrom(t, {item})
               => IF item.final /\ item.text # <<>> /\ ~interrupted
                  THEN /\ task[t].produced = <<>>
                       /\ task'[t].produced = << TranscriptChunk(item.text, TRUE) >>
                  ELSE /\ task'[t].produced = task[t].produced
                       /\ ~interrupted => /\ task'[t].pc = "stt"
                                          /\ task'[t].sent = task[t].sent ]_vars

\* C36 witness: the STT stream yielded two results that were passed over and
\* then a final one with text, which is the turn's only event so far
C36_Witness ==
    /\ task[1].nitems = 3
    /\ task[1].pc = "sent_event"
    /\ task[1].produced = << TranscriptChunk(<<"h", "i">>, TRUE) >>

\* C37: once a chunk marked final has been received the LLM stream is not
\* read again: no further chunk is received and no further text event is
\* yielded, so a final chunk is the last one received; and when the stream
\* ends without a final chunk in a turn that is not interrupted, the text
\* left in the buffer is handed to the synthesizer
C37_StopsAtFirstFinalChunk ==
    /\ [](\A t \in Turns :
            /\ task[t].llm_final => task[t].pc # "llm"
            /\ \A i \in 1..Len(task[t].heard) :
                 task[t].heard[i].final => i = Len(task[t].heard))
    /\ [][ \A t \in Turns :
             task[t].llm_final
               => /\ task'[t].llm_final
                  /\ task'[t].heard = task[t].heard
                  /\ TextChunks(task'[t]) = TextChunks(task[t]) ]_vars
    /\ [][ \A t \in Turns :
             (LLMEnd(t) /\ ~interrupted /\ Strip(task[t].text_buffer) # <<>>)
               => /\ task'[t].synth = Append(task[t].synth, Strip(task[t].text_buffer))
                  /\ task'[t].pc = "ttsf" ]_vars

\* C37 witness: a turn received "a" and then an empty final chunk; it left
\* the LLM loop, synthesized "a" in the flush and ran to its end
C37_Witness ==
    /\ RanToEnd(task[1])
    /\ task[1].heard = << [text |-> <<"a">>, final |-> FALSE],
                          [text |-> <<>>, final |-> TRUE] >>
    /\ task[1].synth = << <<"a">> >>
    /\ Len(TextChunks(task[1])) = 2

\* C38: for every text and every max_length >= 1 the call returns, and each
\* pass of the loop leaves remaining strictly shorter than it found it
C38_SplitTerminates ==
    /\ <>Returned
    /\ [][ (SplitAtSentence \/ SplitAtWord \/ ForceSplit)
             => Len(remaining') < Len(remaining) ]_vars
    /\ [](Looping => /\ max_length >= 1
                     /\ ENABLED (/\ SplitAtSentence \/ SplitAtWord \/ ForceSplit
                                 /\ Len(remaining') < Len(remaining)))

\* C38 witness: a call with a text longer than max_length went through the
\* loop at least twice and returned
C38_Witness ==
    /\ Returned
    /\ Len(text) > max_length
    /\ Len(chunks) >= 3

\* C39: the reader's variable mode is idle or listening, whatever the turn
\* task does; the client is told speaking only by a step of a turn task that
\* sends the speaking mode_change, and that step leaves mode as it is
C39_ReaderModeNeverSpeaking ==
    /\ [](mode \in {"idle", "listening"})
    /\ [][ (announced' = "speaking" /\ announced # "speaking")
             => /\ mode' = mode
                /\ \E t \in Turns :
                     /\ Len(task'[t].sent) = Len(task[t].sent) + 1
                     /\ Len(task'[t].sent) \in SpeakingAt(task'[t].sent) ]_vars
    /\ [][ \A t \in Turns : TaskStep(t) => mode' = mode ]_vars

\* C39 witness: a turn has told the client speaking and a stream_start is
\* about to be read, while the reader's mode is still idle
C39_Witness ==
    /\ Receiving
    /\ announced = "speaking"
    /\ mode = "idle"
    /\ processing_task # 0
    /\ SpeakingAt(task[processing_task].sent) # {}
    /\ Live(task[processing_task])

====
